---- MODULE Spec2Model ----
(***************************************************************************)
(* A model of src/src/github/token-manager.ts (class TokenManager) and of  *)
(* its consumer src/unnamed/part_000 (setupGitHubToken).                   *)
(*                                                                         *)
(* JavaScript runs the manager on one event loop: a step of the model is   *)
(* the code that runs between two suspension points (await), and the       *)
(* interleaving of steps of different callers is the scheduling of the     *)
(* event loop.                                                             *)
(*                                                                         *)
(* The retry executor's delays are kept in milliseconds, as in the source. *)
(* The manager's clock counts whole seconds: every duration the manager's  *)
(* code uses is a whole number of seconds, and one year in milliseconds is *)
(* beyond the model checker's integers.                                    *)
(***************************************************************************)
EXTENDS Integers, Sequences, FiniteSets, TLC

VARIABLES
    \* ---- the class and the module (token-manager.ts 17, 261) ----
    instance,       \* TokenManager.instance: 0 (null) or a manager object
    created,        \* how many TokenManager objects were constructed
    tokenManager,   \* the exported const: 0 before the module is evaluated
    acquired,       \* history: what each caller's last getInstance() returned
    \* ---- the TokenManager instance (token-manager.ts 17-20) ----
    token,          \* this.token: Null or a token string
    tokenExpiry,    \* this.tokenExpiry: NullDate or a Date
    refreshPromise, \* this.refreshPromise: 0 (null) or the doRefresh run it holds
    \* ---- the asynchronous activities ----
    runs,           \* every doRefresh() run started so far, in order (run r is runs[r])
    callers,        \* each caller's position in getToken / createOctokit / a request
    \* ---- the environment ----
    now,            \* Date.now(), in seconds
    ticks,          \* how many times the clock has advanced
    override,       \* process.env.OVERRIDE_GITHUB_TOKEN
    \* ---- history ----
    stored,         \* which run wrote the cached token, and when
    \* ---- retryWithBackoff, run on its own (SpecRetry) ----
    rOptions,       \* the options argument of the call under study
    rFrame,         \* the locals of the call: attempt, delayMs, lastError, position
    rCalls,         \* history: how many times operation() was invoked
    rOutcomes,      \* history: what each invocation of operation() settled with
    rWaits          \* history: the delay of each setTimeout, in order

retryVars == <<rOptions, rFrame, rCalls, rOutcomes, rWaits>>

classVars == <<instance, created, tokenManager, acquired>>

managerVars ==
    <<classVars, token, tokenExpiry, refreshPromise, runs, callers, now, ticks,
      override, stored>>

vars == <<managerVars, retryVars>>

----------------------------------------------------------------------------
(* Values *)

Undefined == "undefined"
Null == "null"

\* A Date or null: <<>> is null, <<t>> the Date whose getTime() is t.
NullDate == <<>>
DateOf(t) == <<t>>
GetTime(d) == d[1]

\* JavaScript's truthiness of a string | null | undefined.
Truthy(s) == s # Null /\ s # Undefined /\ s # ""

Min(a, b) == IF a <= b THEN a ELSE b

----------------------------------------------------------------------------
(* retryWithBackoff: token-manager.ts 218-250 *)

\* The defaults of the destructuring at lines 222-227.
DefaultMaxAttempts == 3
DefaultInitialDelayMs == 5000
DefaultMaxDelayMs == 20000
DefaultBackoffFactor == 2

\* const { maxAttempts = 3, ... } = options: a default replaces a field that
\* is undefined, and only that. An options object holds any subset of the four keys; a key it does not
\* hold reads as undefined.
WithDefaults(options) ==
    [maxAttempts    |-> IF "maxAttempts" \in DOMAIN options
                        THEN options["maxAttempts"] ELSE DefaultMaxAttempts,
     initialDelayMs |-> IF "initialDelayMs" \in DOMAIN options
                        THEN options["initialDelayMs"] ELSE DefaultInitialDelayMs,
     maxDelayMs     |-> IF "maxDelayMs" \in DOMAIN options
                        THEN options["maxDelayMs"] ELSE DefaultMaxDelayMs,
     backoffFactor  |-> IF "backoffFactor" \in DOMAIN options
                        THEN options["backoffFactor"] ELSE DefaultBackoffFactor]

\* options = {}: what both call sites in doRefresh pass.
NoOptions == [k \in {} |-> 0]

\* A thrown value is an Error object or some other value; message is the
\* Error's message, or String(value).
NoError == [kind |-> "undefined", message |-> "", status |-> 0]

\* new Error(message): an Error has no status property (status 0 here).
NewError(m) == [kind |-> "Error", message |-> m, status |-> 0]

\* error instanceof Error: Error itself or a subclass, as the TypeError a
\* failed fetch rejects with.
InstanceOfError(e) == e.kind \in {"Error", "TypeError", "SyntaxError"}

\* String(error), as a template literal formats it: name, colon, message.
ErrorString(e) ==
    IF InstanceOfError(e) THEN e.kind \o ": " \o e.message ELSE e.message

\* error instanceof Error ? error : new Error(String(error))
ToError(e) ==
    IF InstanceOfError(e) THEN e ELSE NewError(e.message)

\* The frame of a call that has not run yet.
RetryIdle ==
    [pc |-> "idle", attempt |-> 0, delayMs |-> 0, lastError |-> NoError,
     value |-> Undefined]

\* Lines 229-235 up to the first await: delayMs and lastError are set, the
\* loop is entered with attempt = 1 and operation() is invoked. A loop that
\* is not entered falls through to throw lastError (line 249).
RetryEnter(options) ==
    LET o == WithDefaults(options) IN
    IF 1 <= o.maxAttempts
    THEN [pc |-> "operation", attempt |-> 1, delayMs |-> o.initialDelayMs,
          lastError |-> NoError, value |-> Undefined]
    ELSE [pc |-> "thrown", attempt |-> 1, delayMs |-> o.initialDelayMs,
          lastError |-> NoError, value |-> Undefined]

\* return await operation(), the operation fulfilled with v (line 235).
RetryOnFulfilled(f, v) ==
    [f EXCEPT !.pc = "returned", !.value = v]

\* A slip the catch block could make: the first error is kept, not the last.
RetryOnRejectedKeepsFirst(f, options, e) ==
    LET o == WithDefaults(options)
        kept == IF f.lastError = NoError THEN ToError(e) ELSE f.lastError
    IN  IF f.attempt < o.maxAttempts
        THEN [f EXCEPT !.pc = "delay", !.lastError = kept]
        ELSE [f EXCEPT !.pc = "thrown", !.lastError = kept,
                       !.attempt = f.attempt + 1]

\* The catch block, lines 236-245, and, after the last attempt, the loop's
\* exit and throw lastError (lines 246-249).
RetryOnRejected(f, options, e) ==
    LET o == WithDefaults(options) IN
    IF f.attempt < o.maxAttempts
    THEN [f EXCEPT !.pc = "delay", !.lastError = ToError(e)]
    ELSE [f EXCEPT !.pc = "thrown", !.lastError = ToError(e),
                   !.attempt = f.attempt + 1]

\* A slip line 243 could make: the delay grows without the cap.
RetryOnTimerUncapped(f, options) ==
    LET o == WithDefaults(options) IN
    [f EXCEPT !.pc = "operation",
              !.delayMs = f.delayMs * o.backoffFactor,
              !.attempt = f.attempt + 1]

\* A slip the loop could make: the attempt counter is not advanced.
RetryOnTimerSameAttempt(f, options) ==
    LET o == WithDefaults(options) IN
    [f EXCEPT !.pc = "operation",
              !.delayMs = Min(f.delayMs * o.backoffFactor, o.maxDelayMs)]

\* The timer of line 242 fired: line 243 updates delayMs, the loop increments
\* attempt and invokes operation() again (attempt < maxAttempts held).
RetryOnTimer(f, options) ==
    LET o == WithDefaults(options) IN
    [f EXCEPT !.pc = "operation",
              !.delayMs = Min(f.delayMs * o.backoffFactor, o.maxDelayMs),
              !.attempt = f.attempt + 1]

----------------------------------------------------------------------------
(* The TokenManager: its constants, its values, its pure parts *)

\* Bounds of the model.
MaxRuns == 2
MaxTicks == 2

\* The callers of the specification at hand.
Callers == DOMAIN callers
RunIds == 1 .. Len(runs)

\* Milliseconds as seconds of the clock.
Seconds(ms) == ms \div 1000

\* Line 21.
TOKEN_LIFETIME_MS == 55 * 60 * 1000
\* Line 49.
expiryBuffer == 5 * 60 * 1000
\* Line 79, 365 * 24 * 60 * 60 * 1000 ms, in seconds.
OverrideLifetime == 365 * 24 * 60 * 60

\* process.env.OVERRIDE_GITHUB_TOKEN: unset, empty or set.
OverrideChoices == {Null, "", "override-token"}

\* The clock advances by a second or by 49:59.
TickChoices == {1, Seconds(TOKEN_LIFETIME_MS - expiryBuffer) - 1}

\* A slip isTokenValid could make: the boundary instant counts as valid.
IsTokenValidInclusive ==
    IF ~Truthy(token) \/ tokenExpiry = NullDate
    THEN FALSE
    ELSE now <= GetTime(tokenExpiry) - Seconds(expiryBuffer)

\* isTokenValid(), lines 44-51.
IsTokenValid ==
    IF ~Truthy(token) \/ tokenExpiry = NullDate
    THEN FALSE
    ELSE now < GetTime(tokenExpiry) - Seconds(expiryBuffer)

\* What a promise of a token settles with.
NoOutcome == [settled |-> FALSE, ok |-> FALSE, token |-> Null, error |-> NoError]
Fulfilled(t) == [settled |-> TRUE, ok |-> TRUE, token |-> t, error |-> NoError]
Rejected(e) == [settled |-> TRUE, ok |-> FALSE, token |-> Null, error |-> e]

\* What a function call ends with: a value returned or an error thrown.
Return(v) == [ok |-> TRUE, value |-> v, error |-> NoError]
Throw(e) == [ok |-> FALSE, value |-> Undefined, error |-> e]

\* What core.getIDToken may settle with at attempt k, the token naming the
\* attempt that obtained it.
IdpResultsAt(k) ==
    {Return("oidc-jwt-" \o ToString(k)), Throw(NewError("idp unreachable"))}

\* What core.getIDToken may settle with.
IdpResults == {Return("oidc-jwt"), Throw(NewError("idp unreachable"))}

\* getOidcToken(), lines 104-114: every failure of the identity provider
\* becomes the remediation message.
GetOidcToken(res) ==
    IF res.ok
    THEN Return(res.value)
    ELSE Throw(NewError("Could not fetch an OIDC token. Did you remember to add id-token: write to your workflow permissions?"))

\* What fetch may settle with: a rejection, or a response with its status
\* and its body, which is JSON (json) or is not, as the error page of a
\* gateway; a field the body lacks is Undefined. fresh is the token the
\* endpoint issues in answer to this call.
Body(t, a, m) == [token |-> t, app_token |-> a, errorMessage |-> m]
PlainResponses(fresh) ==
    {[fetch |-> "resolved", ok |-> TRUE, status |-> 200, json |-> TRUE,
      body |-> Body(fresh, Undefined, Undefined)],
     [fetch |-> "resolved", ok |-> FALSE, status |-> 500, json |-> TRUE,
      body |-> Body(Undefined, Undefined, Undefined)]}
\* Every shape of answer the code tells apart; the error message of the
\* endpoint names the attempt k it answers.
ExchangeResponses(fresh, k) ==
    {[fetch |-> "rejected", ok |-> FALSE, status |-> 0, json |-> TRUE,
      body |-> Body(Undefined, Undefined, Undefined)],
     [fetch |-> "resolved", ok |-> TRUE, status |-> 200, json |-> TRUE,
      body |-> Body(fresh, Undefined, Undefined)],
     [fetch |-> "resolved", ok |-> TRUE, status |-> 200, json |-> TRUE,
      body |-> Body("", fresh, Undefined)],
     [fetch |-> "resolved", ok |-> TRUE, status |-> 200, json |-> TRUE,
      body |-> Body(Undefined, Undefined, Undefined)],
     [fetch |-> "resolved", ok |-> FALSE, status |-> 401, json |-> TRUE,
      body |-> Body(Undefined, Undefined, "denied at attempt " \o ToString(k))],
     [fetch |-> "resolved", ok |-> FALSE, status |-> 500, json |-> TRUE,
      body |-> Body(Undefined, Undefined, Undefined)],
     [fetch |-> "resolved", ok |-> FALSE, status |-> 502, json |-> FALSE,
      body |-> Body(Undefined, Undefined, Undefined)]}

\* exchangeForAppToken(oidcToken), lines 116-150. A fetch that fails rejects
\* with a TypeError; response.json() (lines 128, 139) rejects with a
\* SyntaxError on a body that is not JSON.
ExchangeForAppToken(resp) ==
    IF resp.fetch = "rejected"
    THEN Throw([kind |-> "TypeError", message |-> "fetch failed", status |-> 0])
    ELSE IF ~resp.json
    THEN Throw([kind |-> "SyntaxError", message |-> "Unexpected token",
                status |-> 0])
    ELSE IF ~resp.ok
    THEN Throw(NewError(IF resp.body.errorMessage # Undefined
                        THEN resp.body.errorMessage ELSE "Unknown error"))
    ELSE LET appToken == IF Truthy(resp.body.token)
                         THEN resp.body.token ELSE resp.body.app_token
         IN  IF ~Truthy(appToken)
             THEN Throw(NewError("App token not found in response"))
             ELSE Return(appToken)

\* The catch block of doRefresh, lines 98-101.
RefreshError(e) == NewError("Token refresh failed: " \o ErrorString(e))

\* A doRefresh() run: where it is suspended (in the identity-token step, in
\* the exchange step, or settled), the frame of the retryWithBackoff call it
\* awaits, the caller whose refreshToken() started it, and what its promise
\* settled with.
Run(pc, frame, oidcToken, initiator, outcome) ==
    [pc |-> pc, frame |-> frame, oidcToken |-> oidcToken,
     initiator |-> initiator, outcome |-> outcome]

\* retryWithBackoff threw in run: doRefresh's catch block rejects the run's
\* promise (lines 98-101). A settled run keeps no locals.
FailRun(run, frame) ==
    [run EXCEPT !.pc = "settled", !.frame = RetryIdle, !.oidcToken = Undefined,
                !.outcome = Rejected(RefreshError(frame.lastError))]

----------------------------------------------------------------------------
(* The callers *)

NoResult == [kind |-> "none", token |-> Null, status |-> 0, error |-> NoError]
TokenResult(t) == [kind |-> "token", token |-> t, status |-> 0, error |-> NoError]
ErrorResult(e) == [kind |-> "error", token |-> Null, status |-> 0, error |-> e]
\* What request(options) ends with: a response, or a RequestError thrown
\* with the response's status.
HttpResult(st) ==
    [kind |-> IF st = 200 THEN "response" ELSE "httpError", token |-> Null,
     status |-> st, error |-> NoError]

\* A caller: the operation it is in (op), when it began (at), where it is
\* suspended (pc), the run whose promise it awaits or awaited (run, 0 for none), the token its
\* clients were created with (client), and, of its last request through a
\* client: which client (api), the authorization header of the attempt last
\* sent (hdr), the status of the first attempt (first), the attempts sent
\* (sends), the calls of refreshToken its hook made (refreshes); result is
\* what its last operation ended with.
IdleCaller ==
    [pc |-> "idle", op |-> "none", at |-> 0, run |-> 0, client |-> Null,
     api |-> "none",
     hdr |-> Null, first |-> 0, sends |-> 0, refreshes |-> 0,
     result |-> NoResult]

Apis == {"rest", "graphql"}
Statuses == {200, 401, 403, 500}

NoStored == [run |-> 0, at |-> 0]

\* The module has been evaluated: line 261 created the one manager and
\* exported it.
ModuleLoaded(who) ==
    /\ instance = 1
    /\ created = 1
    /\ tokenManager = 1
    /\ acquired = [c \in who |-> 0]

\* The module is about to be evaluated: the class is defined (line 17), no
\* manager exists.
ModuleLoading(who) ==
    /\ instance = 0
    /\ created = 0
    /\ tokenManager = 0
    /\ acquired = [c \in who |-> 0]

\* The fields of the manager as the constructor leaves them (lines 18-20),
\* and its surroundings.
InitFields(who) ==
    /\ callers = [c \in who |-> IdleCaller]
    /\ token = Null
    /\ tokenExpiry = NullDate
    /\ refreshPromise = 0
    /\ runs = <<>>
    /\ now = 0
    /\ ticks = 0
    /\ override \in OverrideChoices
    /\ stored = NoStored

InitManager(who) == InitFields(who) /\ ModuleLoaded(who)

----------------------------------------------------------------------------
(* The TokenManager's operations, one action per run of code between two   *)
(* suspension points                                                       *)

\* What an action of the manager leaves alone.
EnvUnchanged == UNCHANGED <<classVars, now, ticks, override, retryVars>>
RecordUnchanged == UNCHANGED <<token, tokenExpiry, stored>>

\* A slip line 55 could make: the held promise is never looked at.
RefreshInProgressIgnored == FALSE

\* The condition of line 55: a refresh promise is held.
RefreshInProgress == refreshPromise # 0

\* A slip doRefresh could make: the override is given the exchanged token's
\* lifetime.
DoRefreshShortOverride(c) ==
    IF Truthy(override)
    THEN /\ token' = override
         /\ tokenExpiry' = DateOf(now + Seconds(TOKEN_LIFETIME_MS))
         /\ runs' = Append(runs, Run("settled", RetryIdle, Undefined, c,
                                      Fulfilled(override)))
         /\ stored' = [run |-> Len(runs) + 1, at |-> now]
    ELSE /\ runs' = Append(runs, Run("oidc", RetryEnter(NoOptions), Undefined,
                                      c, NoOutcome))
         /\ RecordUnchanged

\* doRefresh() up to its first await, lines 69-84, called from caller c's
\* refreshToken(). With an override it runs to its end and its promise is
\* fulfilled at once; without, it stops in retryWithBackoff, in the first
\* call of core.getIDToken.
DoRefresh(c) ==
    IF Truthy(override)
    THEN /\ token' = override
         /\ tokenExpiry' = DateOf(now + OverrideLifetime)
         /\ runs' = Append(runs, Run("settled", RetryIdle, Undefined, c,
                                      Fulfilled(override)))
         /\ stored' = [run |-> Len(runs) + 1, at |-> now]
    ELSE /\ runs' = Append(runs, Run("oidc", RetryEnter(NoOptions), Undefined,
                                      c, NoOutcome))
         /\ RecordUnchanged

\* A slip refreshToken could make: the promise of the run it starts is not
\* held.
RefreshTokenNoHold(c, cr) ==
    IF RefreshInProgress
    THEN /\ callers' = [callers EXCEPT
                          ![c] = [cr EXCEPT !.pc = "joined",
                                            !.run = refreshPromise]]
         /\ UNCHANGED <<refreshPromise, runs>>
         /\ RecordUnchanged
    ELSE /\ Len(runs) < MaxRuns
         /\ DoRefresh(c)
         /\ UNCHANGED refreshPromise
         /\ callers' = [callers EXCEPT
                          ![c] = [cr EXCEPT !.pc = "awaiting",
                                            !.run = Len(runs) + 1]]

\* refreshToken() up to its await, lines 53-62, called by caller c, whose
\* record the calling code leaves as cr: it returns the held promise, or
\* starts doRefresh(), holds its promise and awaits it.
RefreshToken(c, cr) ==
    IF RefreshInProgress
    THEN /\ callers' = [callers EXCEPT
                          ![c] = [cr EXCEPT !.pc = "joined",
                                            !.run = refreshPromise]]
         /\ UNCHANGED <<refreshPromise, runs>>
         /\ RecordUnchanged
    ELSE /\ Len(runs) < MaxRuns
         /\ DoRefresh(c)
         /\ refreshPromise' = Len(runs) + 1
         /\ callers' = [callers EXCEPT
                          ![c] = [cr EXCEPT !.pc = "awaiting",
                                            !.run = Len(runs) + 1]]

\* A slip the hooks could make: the refreshed token is also made the
\* client's own credential.
FinishUpdatesClient(cr, o) ==
    IF ~o.ok
    THEN [cr EXCEPT !.pc = "idle", !.result = ErrorResult(o.error)]
    ELSE CASE cr.op = "request" ->
                [cr EXCEPT !.pc = "retry", !.hdr = "token " \o o.token,
                           !.client = o.token, !.sends = @ + 1]
           [] cr.op = "createOctokit" ->
                [cr EXCEPT !.pc = "idle", !.client = o.token,
                           !.result = TokenResult(o.token)]
           [] OTHER ->
                [cr EXCEPT !.pc = "idle", !.result = TokenResult(o.token)]

\* A slip the hooks could make: after the refresh the error of the first
\* attempt is thrown again and the request is not sent again.
FinishWithoutRetry(cr, o) ==
    IF ~o.ok
    THEN [cr EXCEPT !.pc = "idle", !.result = ErrorResult(o.error)]
    ELSE CASE cr.op = "request" ->
                [cr EXCEPT !.pc = "idle", !.result = HttpResult(cr.first)]
           [] cr.op = "createOctokit" ->
                [cr EXCEPT !.pc = "idle", !.client = o.token,
                           !.result = TokenResult(o.token)]
           [] OTHER ->
                [cr EXCEPT !.pc = "idle", !.result = TokenResult(o.token)]

\* What caller cr does when the token promise it awaits has settled with o:
\* getToken() returns or throws (lines 32-37); createOctokit() builds its
\* clients with the token (lines 39-42, 152-216); the hook sets the
\* authorization header and sends the request again (lines 172-174,
\* 202-204), or lets the refresh's error through.
Finish(cr, o) ==
    IF ~o.ok
    THEN [cr EXCEPT !.pc = "idle", !.result = ErrorResult(o.error)]
    ELSE CASE cr.op = "request" ->
                [cr EXCEPT !.pc = "retry", !.hdr = "token " \o o.token,
                           !.sends = @ + 1]
           [] cr.op = "createOctokit" ->
                [cr EXCEPT !.pc = "idle", !.client = o.token,
                           !.result = TokenResult(o.token)]
           [] OTHER ->
                [cr EXCEPT !.pc = "idle", !.result = TokenResult(o.token)]

\* A caller's record as a new operation op finds it.
Begin(cr, op) ==
    [IdleCaller EXCEPT !.op = op, !.at = now, !.client = cr.client]

\* A slip getToken could make: the cache is never used.
CallGetTokenNoCache(c, op) ==
    /\ callers[c].pc = "idle"
    /\ RefreshToken(c, Begin(callers[c], op))
    /\ EnvUnchanged

\* getToken(), lines 32-37, called by caller c for itself or from
\* createOctokit().
CallGetToken(c, op) ==
    /\ callers[c].pc = "idle"
    /\ IF IsTokenValid
       THEN /\ callers' = [callers EXCEPT
                             ![c] = Finish(Begin(callers[c], op),
                                           Fulfilled(token))]
            /\ UNCHANGED <<refreshPromise, runs>>
            /\ RecordUnchanged
          ELSE RefreshToken(c, Begin(callers[c], op))
    /\ EnvUnchanged

GetToken(c) == CallGetToken(c, "getToken")

\* createOctokit(), lines 39-42.
CreateOctokit(c) == CallGetToken(c, "createOctokit")

\* A slip refreshToken could make: the held promise is cleared after a
\* success only, not in a finally block.
ResumeInitiatorKeepsFailure(c) ==
    /\ callers[c].pc = "awaiting"
    /\ runs[callers[c].run].pc = "settled"
    /\ callers' = [callers EXCEPT
                     ![c] = Finish(callers[c], runs[callers[c].run].outcome)]
    /\ refreshPromise' = IF runs[callers[c].run].outcome.ok
                         THEN 0 ELSE refreshPromise
    /\ UNCHANGED runs
    /\ RecordUnchanged
    /\ EnvUnchanged

\* The await of line 62 resumes in the caller that started the run: the
\* finally block clears the held promise, whatever it holds by now.
ResumeInitiator(c) ==
    /\ callers[c].pc = "awaiting"
    /\ runs[callers[c].run].pc = "settled"
    /\ callers' = [callers EXCEPT
                     ![c] = Finish(callers[c], runs[callers[c].run].outcome)]
    /\ refreshPromise' = 0
    /\ UNCHANGED runs
    /\ RecordUnchanged
    /\ EnvUnchanged

\* A slip refreshToken could make: a caller that was handed a promise is
\* given the outcome of the newest run.
ResumeJoinerNewest(c) ==
    /\ callers[c].pc = "joined"
    /\ LET r == callers[c].run
           i == runs[r].initiator
       IN  /\ runs[r].pc = "settled"
           /\ runs[Len(runs)].pc = "settled"
           /\ ~(callers[i].pc = "awaiting" /\ callers[i].run = r)
           /\ callers' = [callers EXCEPT
                            ![c] = Finish(callers[c], runs[Len(runs)].outcome)]
    /\ UNCHANGED <<refreshPromise, runs>>
    /\ RecordUnchanged
    /\ EnvUnchanged

\* A caller that was handed the held promise (line 57) sees it settled. The
\* reactions of a promise run in the order they were registered, and the
\* starter's await was registered first.
ResumeJoiner(c) ==
    /\ callers[c].pc = "joined"
    /\ LET r == callers[c].run
           i == runs[r].initiator
       IN  /\ runs[r].pc = "settled"
           /\ ~(callers[i].pc = "awaiting" /\ callers[i].run = r)
           /\ callers' = [callers EXCEPT
                            ![c] = Finish(callers[c], runs[r].outcome)]
    /\ UNCHANGED <<refreshPromise, runs>>
    /\ RecordUnchanged
    /\ EnvUnchanged

\* A slip doRefresh could make: one retry budget for both steps.
IdTokenSettlesSharedBudget(r, res) ==
    /\ runs[r].pc = "oidc"
    /\ runs[r].frame.pc = "operation"
    /\ LET got == GetOidcToken(res)
           failed == RetryOnRejected(runs[r].frame, NoOptions, got.error)
       IN  IF got.ok
           THEN /\ runs' = [runs EXCEPT
                              ![r] = [@ EXCEPT !.pc = "exchange",
                                               !.frame =
                                                   [RetryEnter(NoOptions) EXCEPT
                                                      !.attempt =
                                                          runs[r].frame.attempt],
                                               !.oidcToken = got.value]]
           ELSE /\ runs' = [runs EXCEPT
                              ![r] = IF failed.pc = "thrown"
                                     THEN FailRun(@, failed)
                                     ELSE [@ EXCEPT !.frame = failed]]
    /\ UNCHANGED <<refreshPromise, callers>>
    /\ RecordUnchanged
    /\ EnvUnchanged

\* core.getIDToken settles in run r (lines 84, 104-114, 232-249). A token
\* ends the first retryWithBackoff and doRefresh enters the second, calling
\* fetch; a failure is retried after a delay or, after the last attempt,
\* ends the run in doRefresh's catch block.
IdTokenSettles(r, res) ==
    /\ runs[r].pc = "oidc"
    /\ runs[r].frame.pc = "operation"
    /\ LET got == GetOidcToken(res)
           failed == RetryOnRejected(runs[r].frame, NoOptions, got.error)
       IN  IF got.ok
           THEN /\ runs' = [runs EXCEPT
                              ![r] = [@ EXCEPT !.pc = "exchange",
                                               !.frame = RetryEnter(NoOptions),
                                               !.oidcToken =
                                                   RetryOnFulfilled(
                                                       runs[r].frame,
                                                       got.value).value]]
           ELSE /\ runs' = [runs EXCEPT
                              ![r] = IF failed.pc = "thrown"
                                     THEN FailRun(@, failed)
                                     ELSE [@ EXCEPT !.frame = failed]]
    /\ UNCHANGED <<refreshPromise, callers>>
    /\ RecordUnchanged
    /\ EnvUnchanged

\* The timer of a backoff delay fires in run r (lines 242-243, 232-235): the
\* next attempt calls the identity provider or the exchange endpoint. The
\* model does not tie the firing to the clock.
DelayEnds(r) ==
    /\ runs[r].pc \in {"oidc", "exchange"}
    /\ runs[r].frame.pc = "delay"
    /\ runs' = [runs EXCEPT
                  ![r] = [@ EXCEPT !.frame = RetryOnTimer(@, NoOptions)]]
    /\ UNCHANGED <<refreshPromise, callers>>
    /\ RecordUnchanged
    /\ EnvUnchanged

\* A slip doRefresh could make: the token is stored before an await and the
\* expiry after it, so that the token is seen without its expiry.
ExchangeSettlesTokenFirst(r, resp) ==
    /\ runs[r].pc = "exchange"
    /\ runs[r].frame.pc = "operation"
    /\ LET got == ExchangeForAppToken(resp)
           failed == RetryOnRejected(runs[r].frame, NoOptions, got.error)
       IN  IF got.ok
           THEN /\ token' = got.value
                /\ UNCHANGED tokenExpiry
                /\ stored' = [run |-> r, at |-> now]
                /\ runs' = [runs EXCEPT
                              ![r] = [@ EXCEPT
                                        !.pc = "settled",
                                        !.frame = RetryIdle,
                                        !.oidcToken = Undefined,
                                        !.outcome = Fulfilled(got.value)]]
           ELSE /\ runs' = [runs EXCEPT
                              ![r] = IF failed.pc = "thrown"
                                     THEN FailRun(@, failed)
                                     ELSE [@ EXCEPT !.frame = failed]]
                /\ RecordUnchanged
    /\ UNCHANGED <<refreshPromise, callers>>
    /\ EnvUnchanged

\* A slip doRefresh's catch block could make: a failed exchange clears the
\* cached token and its expiry.
ExchangeSettlesClearing(r, resp) ==
    /\ runs[r].pc = "exchange"
    /\ runs[r].frame.pc = "operation"
    /\ LET got == ExchangeForAppToken(resp)
           failed == RetryOnRejected(runs[r].frame, NoOptions, got.error)
       IN  IF got.ok
           THEN /\ token' = got.value
                /\ tokenExpiry' = DateOf(now + Seconds(TOKEN_LIFETIME_MS))
                /\ stored' = [run |-> r, at |-> now]
                /\ runs' = [runs EXCEPT
                              ![r] = [@ EXCEPT
                                        !.pc = "settled",
                                        !.frame = RetryIdle,
                                        !.oidcToken = Undefined,
                                        !.outcome = Fulfilled(got.value)]]
           ELSE /\ runs' = [runs EXCEPT
                              ![r] = IF failed.pc = "thrown"
                                     THEN FailRun(@, failed)
                                     ELSE [@ EXCEPT !.frame = failed]]
                /\ IF failed.pc = "thrown"
                   THEN /\ token' = Null
                        /\ tokenExpiry' = NullDate
                        /\ UNCHANGED stored
                   ELSE RecordUnchanged
    /\ UNCHANGED <<refreshPromise, callers>>
    /\ EnvUnchanged

\* fetch settles in run r (lines 88-101, 116-150, 232-249). An app token is
\* stored with its expiry and fulfils the run's promise; a failure is
\* retried after a delay or, after the last attempt, ends the run in
\* doRefresh's catch block.
ExchangeSettles(r, resp) ==
    /\ runs[r].pc = "exchange"
    /\ runs[r].frame.pc = "operation"
    /\ LET got == ExchangeForAppToken(resp)
           failed == RetryOnRejected(runs[r].frame, NoOptions, got.error)
       IN  IF got.ok
           THEN /\ token' = got.value
                /\ tokenExpiry' = DateOf(now + Seconds(TOKEN_LIFETIME_MS))
                /\ stored' = [run |-> r, at |-> now]
                /\ runs' = [runs EXCEPT
                              ![r] = [@ EXCEPT
                                        !.pc = "settled",
                                        !.frame = RetryIdle,
                                        !.oidcToken = Undefined,
                                        !.outcome = Fulfilled(
                                            RetryOnFulfilled(runs[r].frame,
                                                             got.value).value)]]
           ELSE /\ runs' = [runs EXCEPT
                              ![r] = IF failed.pc = "thrown"
                                     THEN FailRun(@, failed)
                                     ELSE [@ EXCEPT !.frame = failed]]
                /\ RecordUnchanged
    /\ UNCHANGED <<refreshPromise, callers>>
    /\ EnvUnchanged

\* A request is issued through one of the clients caller c created: the
\* hook (lines 159-161, 189-191) sends it with the client's own token.
Request(c, api) ==
    /\ callers[c].pc = "idle"
    /\ Truthy(callers[c].client)
    /\ callers' = [callers EXCEPT
                     ![c] = [Begin(@, "request") EXCEPT
                               !.pc = "request", !.api = api,
                               !.hdr = "token " \o callers[c].client,
                               !.sends = 1]]
    /\ UNCHANGED <<refreshPromise, runs>>
    /\ RecordUnchanged
    /\ EnvUnchanged

\* What a step of the class leaves alone.
FieldsUnchanged ==
    UNCHANGED <<token, tokenExpiry, refreshPromise, runs, callers, now, ticks,
                override, stored, retryVars>>

\* A slip getInstance could make: a manager is constructed at every call.
GetInstanceAlwaysNew ==
    [instance |-> created + 1, created |-> created + 1, returns |-> created + 1]

\* TokenManager.getInstance(), lines 25-30: the manager it returns, and the
\* static field and the number of managers constructed after the call.
GetInstance ==
    IF instance = 0
    THEN [instance |-> created + 1, created |-> created + 1,
          returns |-> created + 1]
    ELSE [instance |-> instance, created |-> created, returns |-> instance]

\* The module is evaluated, once: line 261 binds the exported tokenManager
\* to what getInstance() returns.
ExportSingleton ==
    /\ tokenManager = 0
    /\ instance' = GetInstance.instance
    /\ created' = GetInstance.created
    /\ tokenManager' = GetInstance.returns
    /\ UNCHANGED acquired
    /\ FieldsUnchanged

\* Caller c calls TokenManager.getInstance(), as the test at lines 56-60 of
\* token-manager.test.ts does; the module was evaluated when it was imported.
AcquireInstance(c) ==
    /\ tokenManager # 0
    /\ instance' = GetInstance.instance
    /\ created' = GetInstance.created
    /\ acquired' = [acquired EXCEPT ![c] = GetInstance.returns]
    /\ UNCHANGED tokenManager
    /\ FieldsUnchanged

\* setupGitHubToken(), part_000 line 9: getToken() on the exported manager.
SetupGitHubToken(c) ==
    /\ tokenManager # 0
    /\ GetToken(c)

\* A slip the hooks could make: only 401 counts as an authentication error.
IsAuthErrorOnly401(st) == st = 401

\* The condition of lines 164 and 194.
IsAuthError(st) == st = 401 \/ st = 403

\* The first attempt of caller c's request settles with status st (lines
\* 160-177, 190-207): a response is returned, an authentication error calls
\* refreshToken(), any other error is thrown again.
RequestSettles(c, st) ==
    /\ callers[c].pc = "request"
    /\ IF st # 200 /\ IsAuthError(st)
       THEN RefreshToken(c, [callers[c] EXCEPT !.first = st,
                                               !.refreshes = @ + 1])
       ELSE /\ callers' = [callers EXCEPT
                             ![c] = [@ EXCEPT !.pc = "idle", !.first = st,
                                              !.result = HttpResult(st)]]
            /\ UNCHANGED <<refreshPromise, runs>>
            /\ RecordUnchanged
    /\ EnvUnchanged

\* The request sent again settles with status st (lines 174, 204): whatever
\* it is, it is the hook's result.
RetrySettles(c, st) ==
    /\ callers[c].pc = "retry"
    /\ callers' = [callers EXCEPT
                     ![c] = [@ EXCEPT !.pc = "idle",
                                      !.result = HttpResult(st)]]
    /\ UNCHANGED <<refreshPromise, runs>>
    /\ RecordUnchanged
    /\ EnvUnchanged

\* A slip resetInstance could make: the held promise is left alone.
ResetInstanceKeepsPromise ==
    /\ token' = Null
    /\ tokenExpiry' = NullDate
    /\ stored' = NoStored
    /\ UNCHANGED <<refreshPromise, runs, callers>>
    /\ EnvUnchanged

\* resetInstance(), lines 252-257.
ResetInstance ==
    /\ token' = Null
    /\ tokenExpiry' = NullDate
    /\ refreshPromise' = 0
    /\ stored' = NoStored
    /\ UNCHANGED <<runs, callers>>
    /\ EnvUnchanged

\* A refresh is in flight: a promise is held, or a run has not settled.
RefreshInFlight ==
    refreshPromise # 0 \/ \E r \in RunIds : runs[r].pc # "settled"

\* resetInstance() as its contract allows it: not while a refresh is in
\* flight.
SafeReset ==
    /\ ~RefreshInFlight
    /\ ResetInstance

\* Time passes.
Tick(d) ==
    /\ ticks < MaxTicks
    /\ now' = now + d
    /\ ticks' = ticks + 1
    /\ UNCHANGED <<classVars, token, tokenExpiry, refreshPromise, runs, callers,
                   override, stored, retryVars>>

\* The token the exchange endpoint issues to run r.
FreshToken(r) == "app-token-" \o ToString(r)

\* The steps of the doRefresh() runs.
RunSteps ==
    \/ \E r \in RunIds, res \in IdpResults : IdTokenSettles(r, res)
    \/ \E r \in RunIds : DelayEnds(r)
    \/ \E r \in RunIds :
         \E resp \in PlainResponses(FreshToken(r)) : ExchangeSettles(r, resp)

\* The manager under callers of getToken(), with the test suite's reset.
Next ==
    \/ \E c \in Callers : GetToken(c)
    \/ \E c \in Callers : ResumeInitiator(c)
    \/ \E c \in Callers : ResumeJoiner(c)
    \/ RunSteps
    \/ SafeReset

\* The manager under callers of getToken(), with a clock.
NextClock ==
    \/ \E c \in Callers : GetToken(c)
    \/ \E c \in Callers : ResumeInitiator(c)
    \/ \E c \in Callers : ResumeJoiner(c)
    \/ RunSteps
    \/ \E d \in TickChoices : Tick(d)

\* The manager under callers that create clients and issue requests through
\* them.
NextClients ==
    \/ \E c \in Callers : CreateOctokit(c)
    \/ \E c \in Callers : ResumeInitiator(c)
    \/ \E c \in Callers : ResumeJoiner(c)
    \/ RunSteps
    \/ \E c \in Callers, api \in Apis : Request(c, api)
    \/ \E c \in Callers, st \in Statuses : RequestSettles(c, st)
    \/ \E c \in Callers, st \in Statuses : RetrySettles(c, st)

RetryUnused ==
    /\ rOptions = NoOptions
    /\ rFrame = RetryIdle
    /\ rCalls = 0
    /\ rOutcomes = <<>>
    /\ rWaits = <<>>

Init == InitManager({"c1", "c2", "c3"}) /\ RetryUnused

Spec == Init /\ [][Next]_vars

InitClock == InitManager({"c1", "c2"}) /\ RetryUnused

SpecClock == InitClock /\ [][NextClock]_vars

\* Time passes until the cached token stops being valid (line 50).
TokenGoesStale ==
    /\ IsTokenValid
    /\ now' = GetTime(tokenExpiry) - Seconds(expiryBuffer)
    /\ UNCHANGED <<classVars, token, tokenExpiry, refreshPromise, runs, callers,
                   ticks, override, stored, retryVars>>

\* The manager under callers of getToken(), its tokens going stale.
NextLive ==
    \/ \E c \in Callers : GetToken(c)
    \/ \E c \in Callers : ResumeInitiator(c)
    \/ \E c \in Callers : ResumeJoiner(c)
    \/ RunSteps
    \/ TokenGoesStale

InitLive == InitManager({"c1", "c2"}) /\ RetryUnused

\* Every pending call of the identity provider and of the exchange endpoint
\* and every backoff timer eventually completes, and the event loop
\* eventually runs every reaction of a settled promise.
SpecLive ==
    /\ InitLive
    /\ [][NextLive]_vars
    /\ WF_vars(RunSteps)
    /\ WF_vars(\E c \in Callers : ResumeInitiator(c))
    /\ WF_vars(\E c \in Callers : ResumeJoiner(c))

\* The manager under callers of getToken(), with resetInstance() called at
\* any time, a refresh in flight or not.
NextReset ==
    \/ \E c \in Callers : GetToken(c)
    \/ \E c \in Callers : ResumeInitiator(c)
    \/ \E c \in Callers : ResumeJoiner(c)
    \/ RunSteps
    \/ ResetInstance

InitReset == InitManager({"c1", "c2"}) /\ RetryUnused

SpecReset == InitReset /\ [][NextReset]_vars

\* The module from its evaluation on, under callers that acquire the
\* manager and callers of setupGitHubToken().
NextInstance ==
    \/ ExportSingleton
    \/ \E c \in Callers : AcquireInstance(c)
    \/ \E c \in Callers : SetupGitHubToken(c)
    \/ \E c \in Callers : ResumeInitiator(c)
    \/ \E c \in Callers : ResumeJoiner(c)
    \/ RunSteps

InitInstance ==
    InitFields({"c1", "c2"}) /\ ModuleLoading({"c1", "c2"}) /\ RetryUnused

SpecInstance == InitInstance /\ [][NextInstance]_vars

\* The answers to a request that matter to the manager: the credential is
\* accepted or rejected (line 164).
CredentialStatuses == {200, 401}

\* The manager under every kind of caller: getToken(), createOctokit(),
\* requests through the clients, and the test suite's reset.
NextAll ==
    \/ \E c \in Callers : GetToken(c)
    \/ \E c \in Callers : CreateOctokit(c)
    \/ \E c \in Callers : ResumeInitiator(c)
    \/ \E c \in Callers : ResumeJoiner(c)
    \/ RunSteps
    \/ \E c \in Callers, api \in Apis : Request(c, api)
    \/ \E c \in Callers, st \in CredentialStatuses : RequestSettles(c, st)
    \/ \E c \in Callers, st \in CredentialStatuses : RetrySettles(c, st)
    \/ SafeReset

InitAll == InitManager({"c1", "c2"}) /\ RetryUnused

SpecAll == InitAll /\ [][NextAll]_vars

\* The manager under callers of getToken(), the identity provider and the
\* exchange endpoint answering in every way the code tells apart.
NextExchange ==
    \/ \E c \in Callers : GetToken(c)
    \/ \E c \in Callers : ResumeInitiator(c)
    \/ \E c \in Callers : ResumeJoiner(c)
    \/ \E r \in RunIds :
         \E res \in IdpResultsAt(runs[r].frame.attempt) : IdTokenSettles(r, res)
    \/ \E r \in RunIds : DelayEnds(r)
    \/ \E r \in RunIds :
         \E resp \in ExchangeResponses(FreshToken(r), runs[r].frame.attempt) :
            ExchangeSettles(r, resp)

InitExchange == InitManager({"c1", "c2"}) /\ RetryUnused

SpecExchange == InitExchange /\ [][NextExchange]_vars

InitClients == InitManager({"c1", "c2"}) /\ RetryUnused

SpecClients == InitClients /\ [][NextClients]_vars

----------------------------------------------------------------------------
(* retryWithBackoff on its own, over the retry policies of the data model  *)

\* Bounds of the inputs.
MaxAttemptsBound == 4

OptionKeys == {"maxAttempts", "initialDelayMs", "maxDelayMs", "backoffFactor"}
AttemptChoices == 1 .. MaxAttemptsBound
InitialDelayChoices == {1000, 4000}
MaxDelayChoices == {4000, 6000, 30000}
FactorChoices == {1, 3}

\* RetryPolicy of the data model: maxAttempts >= 1, initialDelay > 0,
\* maxDelay >= initialDelay, backoffFactor >= 1.
IsPolicy(o) ==
    /\ o.maxAttempts >= 1
    /\ o.initialDelayMs > 0
    /\ o.maxDelayMs >= o.initialDelayMs
    /\ o.backoffFactor >= 1

OptionChoices ==
    {o \in {[k \in K |-> full[k]] :
                K \in SUBSET OptionKeys,
                full \in [maxAttempts : AttemptChoices,
                          initialDelayMs : InitialDelayChoices,
                          maxDelayMs : MaxDelayChoices,
                          backoffFactor : FactorChoices]} :
        IsPolicy(WithDefaults(o))}

\* What operation() may settle with.
Fulfilments == {"v1", "v2"}
Rejections ==
    {NewError("e1"), NewError("e2"),
     [kind |-> "value", message |-> "s1", status |-> 0]}

InitRetry ==
    /\ InitManager({"c1"})
    /\ override = Null
    /\ rOptions \in OptionChoices
    /\ rFrame = RetryIdle
    /\ rCalls = 0
    /\ rOutcomes = <<>>
    /\ rWaits = <<>>

\* retryWithBackoff(operation, options) is called.
RetryCall ==
    /\ rFrame.pc = "idle"
    /\ rFrame' = RetryEnter(rOptions)
    /\ rCalls' = IF rFrame'.pc = "operation" THEN rCalls + 1 ELSE rCalls
    /\ UNCHANGED <<managerVars, rOptions, rOutcomes, rWaits>>

RetryOperationFulfils(v) ==
    /\ rFrame.pc = "operation"
    /\ rFrame' = RetryOnFulfilled(rFrame, v)
    /\ rOutcomes' = Append(rOutcomes, [ok |-> TRUE, value |-> v, error |-> NoError])
    /\ UNCHANGED <<managerVars, rOptions, rCalls, rWaits>>

RetryOperationRejects(e) ==
    /\ rFrame.pc = "operation"
    /\ rFrame' = RetryOnRejected(rFrame, rOptions, e)
    /\ rOutcomes' = Append(rOutcomes, [ok |-> FALSE, value |-> Undefined, error |-> e])
    /\ rWaits' = IF rFrame'.pc = "delay"
                 THEN Append(rWaits, rFrame'.delayMs) ELSE rWaits
    /\ UNCHANGED <<managerVars, rOptions, rCalls>>

RetryTimerFires ==
    /\ rFrame.pc = "delay"
    /\ rFrame' = RetryOnTimer(rFrame, rOptions)
    /\ rCalls' = rCalls + 1
    /\ UNCHANGED <<managerVars, rOptions, rOutcomes, rWaits>>

\* The operation is exchangeForAppToken (lines 88-90) and fetch settles
\* with resp; the history keeps the response beside what the call made of
\* it.
RetryExchangeAnswers(resp) ==
    /\ rFrame.pc = "operation"
    /\ LET got == ExchangeForAppToken(resp)
       IN  /\ rFrame' = IF got.ok
                        THEN RetryOnFulfilled(rFrame, got.value)
                        ELSE RetryOnRejected(rFrame, rOptions, got.error)
           /\ rOutcomes' = Append(rOutcomes,
                                  [ok |-> got.ok, value |-> got.value,
                                   error |-> got.error, response |-> resp])
    /\ rWaits' = IF rFrame'.pc = "delay"
                 THEN Append(rWaits, rFrame'.delayMs) ELSE rWaits
    /\ UNCHANGED <<managerVars, rOptions, rCalls>>

\* The second retryWithBackoff call of doRefresh, on its own.
NextExchangeCall ==
    \/ RetryCall
    \/ \E resp \in ExchangeResponses("app-token", rFrame.attempt) :
         RetryExchangeAnswers(resp)
    \/ RetryTimerFires

InitExchangeCall ==
    /\ InitManager({"c1"})
    /\ override = Null
    /\ RetryUnused

SpecExchangeCall == InitExchangeCall /\ [][NextExchangeCall]_vars

NextRetry ==
    \/ RetryCall
    \/ \E v \in Fulfilments : RetryOperationFulfils(v)
    \/ \E e \in Rejections : RetryOperationRejects(e)
    \/ RetryTimerFires

SpecRetry == InitRetry /\ [][NextRetry]_vars

----------------------------------------------------------------------------
(* Claims about retryWithBackoff *)

RECURSIVE Pow(_, _)
Pow(b, n) == IF n = 0 THEN 1 ELSE b * Pow(b, n - 1)

FailedBefore(n) == {i \in 1 .. Len(rOutcomes) : i <= n /\ ~rOutcomes[i].ok}

\* C8. retryWithBackoff invokes the operation at most maxAttempts times
\* (3 by default); it stops at the first attempt that succeeds and returns
\* that attempt's result; when all maxAttempts attempts fail it fails with
\* the error of the last attempt, whatever the earlier attempts threw.
C8_RetryExecutor ==
    LET o == WithDefaults(rOptions)
        n == Len(rOutcomes)
    IN  /\ rCalls <= o.maxAttempts
        /\ rOptions = NoOptions => rCalls <= 3
        /\ n <= rCalls
        /\ \A i \in 1 .. n - 1 : ~rOutcomes[i].ok
        /\ (n > 0 /\ rOutcomes[n].ok) => rFrame.pc = "returned"
        /\ rFrame.pc = "returned" =>
              /\ n = rCalls
              /\ rOutcomes[n].ok
              /\ rFrame.value = rOutcomes[n].value
        /\ (n = o.maxAttempts /\ ~rOutcomes[n].ok) => rFrame.pc = "thrown"
        /\ rFrame.pc = "thrown" =>
              /\ rCalls = o.maxAttempts
              /\ n = o.maxAttempts
              /\ ~rOutcomes[n].ok
              /\ rFrame.lastError.kind = "Error"
              /\ rFrame.lastError.message = rOutcomes[n].error.message

\* Three attempts under the default policy, all failed, the first and the
\* last with different errors: the call has thrown.
C8_Witness ==
    /\ rOptions = NoOptions
    /\ rFrame.pc = "thrown"
    /\ Len(rOutcomes) = 3
    /\ rOutcomes[1].error.message = "e1"
    /\ rOutcomes[3].error.message = "e2"

\* C9. retryWithBackoff waits exactly once after each failed attempt that is
\* not the final one, never after a success or after the final failure, and
\* before the next attempt starts; the k-th wait lasts
\* min(initialDelay * backoffFactor^(k-1), maxDelay). Under the default
\* policy a call failing twice and succeeding on attempt 3 has waited 5000 ms
\* and then 10000 ms and returns the third attempt's result.
C9_BackoffSequence ==
    LET o == WithDefaults(rOptions)
        n == Len(rOutcomes)
    IN  /\ Len(rWaits) = Cardinality(FailedBefore(o.maxAttempts - 1))
        /\ rFrame.pc = "operation" => rCalls = Len(rWaits) + 1
        /\ rFrame.pc = "delay" => rCalls = Len(rWaits)
        /\ \A k \in 1 .. Len(rWaits) :
              rWaits[k] = Min(o.initialDelayMs * Pow(o.backoffFactor, k - 1),
                              o.maxDelayMs)
        /\ (rOptions = NoOptions /\ rFrame.pc = "returned" /\ rCalls = 3) =>
              /\ rWaits = <<5000, 10000>>
              /\ rFrame.value = rOutcomes[3].value

\* The default policy, two failures and then a success.
C9_Witness ==
    /\ rOptions = NoOptions
    /\ rFrame.pc = "returned"
    /\ rCalls = 3
    /\ rWaits = <<5000, 10000>>

----------------------------------------------------------------------------
(* Claims about the manager *)

Awaiting(c) == callers[c].pc \in {"awaiting", "joined"}
Unsettled(r) == runs[r].pc # "settled"

\* What getToken() hands its caller when the promise it awaited settles.
ResultOf(o) == IF o.ok THEN TokenResult(o.token) ELSE ErrorResult(o.error)

\* C1. Single-flight: callers of getToken() that find no valid token while a
\* refresh has not settled all await one and the same doRefresh() run, the
\* one the manager holds, so that at most one run is ever unsettled; and
\* each of them ends with the outcome of that run, the same token or the
\* same failure.
C1_SingleFlight ==
    /\ Cardinality({r \in RunIds : Unsettled(r)}) <= 1
    /\ \A c \in Callers :
         (Awaiting(c) /\ Unsettled(callers[c].run)) =>
            callers[c].run = refreshPromise
    /\ \A c \in Callers :
         (callers[c].op = "getToken" /\ callers[c].pc = "idle"
            /\ callers[c].run # 0) =>
            callers[c].result = ResultOf(runs[callers[c].run].outcome)

\* Three callers went through the one run there has been, and hold its token.
C1_Witness ==
    /\ Len(runs) = 1
    /\ runs[1].outcome.ok
    /\ \A c \in Callers :
         /\ callers[c].op = "getToken"
         /\ callers[c].pc = "idle"
         /\ callers[c].run = 1
         /\ callers[c].result = TokenResult("app-token-1")
    /\ Cardinality(Callers) = 3

\* The validity predicate as the specification states it, in seconds.
ValidAt(t) ==
    /\ token # Null
    /\ tokenExpiry # NullDate
    /\ t < GetTime(tokenExpiry) - 5 * 60

\* Caller c calls getToken() in this step.
GetTokenStep(c) ==
    /\ callers[c].pc = "idle"
    /\ callers'[c] # callers[c]
    /\ callers'[c].op = "getToken"

\* C2. Cache hit: a getToken() call made while the cached token passes the
\* validity predicate returns the cached value at once, joins and starts no
\* run (so no call of the identity provider or of the exchange endpoint is
\* made) and leaves token, expiry and refresh state as they were. A token
\* is valid at the instant it is stored, so a call right after a refresh is
\* such a call.
C2_CacheHit ==
    [][/\ \A c \in Callers :
            (GetTokenStep(c) /\ ValidAt(now)) =>
               /\ callers'[c].pc = "idle"
               /\ callers'[c].run = 0
               /\ callers'[c].result = TokenResult(token)
               /\ UNCHANGED <<token, tokenExpiry, refreshPromise, runs, stored>>
       /\ (stored' # stored /\ stored'.run # 0) => ValidAt(now)']_vars

\* A caller was served from the cache at the instant the token was stored.
C2_Witness ==
    \E c \in Callers :
        /\ callers[c].op = "getToken"
        /\ callers[c].pc = "idle"
        /\ callers[c].run = 0
        /\ callers[c].result = TokenResult("app-token-1")
        /\ callers[c].at = stored.at
        /\ stored.at > 0
        /\ Len(runs) = 1

\* C3. Expiry boundary: the cached token is valid at time now exactly when
\* a token and an expiry are stored and now < expiresAt - 5 minutes. An
\* exchanged token stored at T has expiresAt = T + 55 minutes: a getToken()
\* call up to T + 49:59 is served from the cache, a call at T + 50:00 or
\* later starts or joins a refresh.
C3_State ==
    /\ IsTokenValid <=> ValidAt(now)
    /\ (stored.run # 0 /\ ~Truthy(override)) =>
          tokenExpiry = DateOf(stored.at + 55 * 60)

C3_ExpiryBoundary ==
    [][/\ C3_State'
       /\ \A c \in Callers :
            (GetTokenStep(c) /\ stored.run # 0 /\ ~Truthy(override)) =>
               /\ now <= stored.at + 49 * 60 + 59 =>
                     callers'[c].pc = "idle" /\ callers'[c].run = 0
               /\ now >= stored.at + 50 * 60 =>
                     Awaiting(c)' /\ callers'[c].run = refreshPromise']_vars

\* One caller was served from the cache at T + 49:59, another started a
\* refresh at T + 50:00.
C3_Witness ==
    \E c1, c2 \in Callers :
        /\ stored.run = 1
        /\ ~Truthy(override)
        /\ callers[c1].op = "getToken"
        /\ callers[c1].pc = "idle"
        /\ callers[c1].run = 0
        /\ callers[c1].at = stored.at + 49 * 60 + 59
        /\ callers[c2].op = "getToken"
        /\ callers[c2].pc = "awaiting"
        /\ callers[c2].run = 2
        /\ callers[c2].at = stored.at + 50 * 60

\* C4. Override precedence: with an override configured, present and not
\* empty, every getToken() returns the override itself; no run ever reaches
\* the identity provider or the exchange endpoint (every run is settled when
\* it is created); and the refresh that adopts the override stores it with
\* expiresAt = now + 1 year.
C4_OverridePrecedence ==
    Truthy(override) =>
        /\ \A r \in RunIds :
             runs[r].pc = "settled" /\ runs[r].outcome = Fulfilled(override)
        /\ \A c \in Callers :
             (callers[c].op = "getToken" /\ callers[c].pc = "idle") =>
                callers[c].result = TokenResult(override)
        /\ \A c \in Callers : callers[c].pc # "joined"
        /\ stored.run # 0 =>
             /\ token = override
             /\ tokenExpiry = DateOf(stored.at + 365 * 24 * 60 * 60)

\* A refresh run after the clock advanced adopted the override.
C4_Witness ==
    /\ override = "override-token"
    /\ stored.run = 1
    /\ stored.at > 0
    /\ token = "override-token"
    /\ \E c \in Callers :
         /\ callers[c].pc = "idle"
         /\ callers[c].run = 1
         /\ callers[c].result = TokenResult("override-token")

\* The statuses of a rejected credential.
StaleCredential(st) == st \in {401, 403}

\* Caller c's last operation was a request through a client, and it ended.
RequestDone(c) == callers[c].op = "request" /\ callers[c].pc = "idle"

\* The refresh caller c's hook called ended well, or not.
HookRefreshOk(c) ==
    /\ callers[c].run # 0
    /\ runs[callers[c].run].pc = "settled"
    /\ runs[callers[c].run].outcome.ok

HookRefreshFailed(c) ==
    /\ callers[c].run # 0
    /\ runs[callers[c].run].pc = "settled"
    /\ ~runs[callers[c].run].outcome.ok

\* C5, as stated. A request's hook calls the refresh and sends the request
\* again exactly when the first attempt fails with 401 or 403; then the
\* refresh is called once, the request is sent once more with the refreshed
\* token in its authorization header, and what that second attempt ends with
\* is the outcome. A first success is returned, any other failure thrown
\* again, without refresh and without a second attempt.
C5_AsStated ==
    \A c \in Callers :
        RequestDone(c) =>
            /\ StaleCredential(callers[c].first) <=>
                  (callers[c].refreshes = 1 /\ callers[c].sends = 2)
            /\ StaleCredential(callers[c].first) =>
                  /\ callers[c].hdr =
                        "token " \o runs[callers[c].run].outcome.token
                  /\ callers[c].result.kind \in {"response", "httpError"}
            /\ ~StaleCredential(callers[c].first) =>
                  /\ callers[c].result = HttpResult(callers[c].first)
                  /\ callers[c].sends = 1
                  /\ callers[c].refreshes = 0

\* C5, amended. The hook calls the refresh exactly when the first attempt
\* fails with 401 or 403, and then once. When that refresh succeeds the
\* request is sent once more, with the refreshed token in its authorization
\* header, and what the second attempt ends with (a second 401 or 403
\* included) is the outcome, with no further refresh or attempt. When that
\* refresh fails the request is not sent again and the refresh's error is the
\* outcome. A first success is returned, any other failure thrown again,
\* without refresh and without a second attempt. A request is sent at most
\* twice.
C5_Reauthentication ==
    \A c \in Callers :
        callers[c].op = "request" =>
            /\ callers[c].sends <= 2
            /\ callers[c].refreshes <= 1
            /\ callers[c].pc # "request" =>
                  (callers[c].refreshes = 1 <=> StaleCredential(callers[c].first))
            /\ callers[c].sends = 2 =>
                  /\ StaleCredential(callers[c].first)
                  /\ HookRefreshOk(c)
                  /\ callers[c].hdr =
                        "token " \o runs[callers[c].run].outcome.token
            /\ RequestDone(c) =>
                  /\ ~StaleCredential(callers[c].first) =>
                        /\ callers[c].result = HttpResult(callers[c].first)
                        /\ callers[c].sends = 1
                  /\ (StaleCredential(callers[c].first) /\ HookRefreshOk(c)) =>
                        /\ callers[c].sends = 2
                        /\ callers[c].result.kind \in {"response", "httpError"}
                  /\ (StaleCredential(callers[c].first) /\ HookRefreshFailed(c)) =>
                        /\ callers[c].sends = 1
                        /\ callers[c].result =
                              ErrorResult(runs[callers[c].run].outcome.error)

\* A GraphQL request answered 403 was sent again after a refresh and was
\* answered 401: that is its outcome.
C5_Witness ==
    \E c \in Callers :
        /\ RequestDone(c)
        /\ callers[c].api = "graphql"
        /\ callers[c].first = 403
        /\ callers[c].sends = 2
        /\ callers[c].refreshes = 1
        /\ callers[c].result = HttpResult(401)

\* C6, as stated. A request through a client ends with a 401 or 403 only
\* when the refresh its hook called failed.
C6_AsStated ==
    \A c \in Callers :
        (RequestDone(c) /\ callers[c].result.kind = "httpError"
            /\ StaleCredential(callers[c].result.status)) =>
            HookRefreshFailed(c)

\* C6, amended. The 401 or 403 of a request's first attempt never reaches
\* the caller. A request ends with a 401 or 403 only as the answer to its
\* second attempt, sent after a refresh that succeeded; when the refresh
\* fails the request ends with the refresh's error, which is no 401 or 403.
C6_StaleCredential ==
    \A c \in Callers :
        RequestDone(c) =>
            /\ (callers[c].result.kind = "httpError"
                  /\ StaleCredential(callers[c].result.status)) =>
                  /\ StaleCredential(callers[c].first)
                  /\ callers[c].sends = 2
                  /\ HookRefreshOk(c)
            /\ (StaleCredential(callers[c].first) /\ HookRefreshFailed(c)) =>
                  /\ callers[c].result.kind = "error"
                  /\ callers[c].result.status = 0

\* A REST request answered 401, refreshed well, sent again and answered
\* 403.
C6_Witness ==
    \E c \in Callers :
        /\ RequestDone(c)
        /\ callers[c].api = "rest"
        /\ callers[c].first = 401
        /\ HookRefreshOk(c)
        /\ callers[c].sends = 2
        /\ callers[c].result = HttpResult(403)

\* Run r failed and the refreshToken() call that started it has settled.
FailedAndSettled(r) ==
    /\ runs[r].pc = "settled"
    /\ ~runs[r].outcome.ok
    /\ ~(callers[runs[r].initiator].pc = "awaiting"
           /\ callers[runs[r].initiator].run = r)

\* C7. A failed refresh is not cached or replayed. When the refreshToken()
\* call that started a run settles with the run's failure, the refresh state
\* is idle again and no run is started by that step; a later caller is never
\* handed the promise of a run that failed and whose refreshToken() has
\* settled, it starts a new run; and a run is started only in a step in
\* which an idle caller calls.
C7_FailureNotCached ==
    [][/\ \A c \in Callers :
            (callers[c].pc = "awaiting" /\ callers'[c].pc # "awaiting"
               /\ ~runs[callers[c].run].outcome.ok) =>
               /\ refreshPromise' = 0
               /\ runs' = runs
               /\ callers'[c].result =
                     ErrorResult(runs[callers[c].run].outcome.error)
       /\ \A r \in RunIds : FailedAndSettled(r) => refreshPromise # r
       /\ \A c \in Callers :
            (callers[c].pc = "idle" /\ Awaiting(c)'
               /\ callers'[c].run \in RunIds) =>
               ~FailedAndSettled(callers'[c].run)
       /\ Len(runs') > Len(runs) =>
            \E c \in Callers :
               /\ callers[c].pc = "idle"
               /\ callers'[c].pc = "awaiting"
               /\ callers'[c].run = Len(runs')
               /\ Len(runs') = Len(runs) + 1]_vars

\* The first run failed, its caller got the error, and another caller's
\* getToken() started the second run.
C7_Witness ==
    /\ Len(runs) = 2
    /\ ~runs[1].outcome.ok
    /\ refreshPromise = 2
    /\ Unsettled(2)
    /\ runs[2].initiator # runs[1].initiator
    /\ callers[runs[1].initiator].pc = "idle"
    /\ callers[runs[1].initiator].run = 1
    /\ callers[runs[1].initiator].result.kind = "error"

\* resetInstance() is the step in which neither a caller nor a run moves:
\* every other step of the manager moves one.
ResetStep == UNCHANGED <<callers, runs>>

\* C10. resetInstance() clears the cached token, the expiry and the held
\* refresh promise, whatever they were; and with none of them set and no
\* refresh in flight, the next getToken() is a cache miss that starts a new
\* run.
C10_Reset ==
    [][/\ ResetStep =>
            /\ token' = Null
            /\ tokenExpiry' = NullDate
            /\ refreshPromise' = 0
       /\ \A c \in Callers :
            (GetTokenStep(c) /\ token = Null /\ tokenExpiry = NullDate
               /\ refreshPromise = 0 /\ ~RefreshInFlight) =>
               /\ callers'[c].pc = "awaiting"
               /\ Len(runs') = Len(runs) + 1
               /\ callers'[c].run = Len(runs')
               /\ refreshPromise' = Len(runs')]_vars

\* A token had been stored by the first run and is gone; the caller that
\* got it has called again and started the second run.
C10_Witness ==
    /\ Len(runs) = 2
    /\ runs[1].outcome.ok
    /\ token = Null
    /\ tokenExpiry = NullDate
    /\ refreshPromise = 2
    /\ Unsettled(2)
    /\ runs[2].initiator = runs[1].initiator
    /\ callers[runs[2].initiator].pc = "awaiting"

\* C11. Every getInstance() returns the one manager: at most one manager is
\* ever constructed, every caller's getInstance() returned the object the
\* static field holds, and the exported tokenManager, on which
\* setupGitHubToken() calls getToken(), is that object.
C11_SingleInstance ==
    /\ created <= 1
    /\ tokenManager # 0 => (tokenManager = instance /\ created = 1)
    /\ \A c \in Callers :
          acquired[c] # 0 => (acquired[c] = instance /\ acquired[c] = tokenManager)
    /\ \A c \in Callers : callers[c].op # "none" => tokenManager = instance

\* Both callers acquired the manager and one of them has called
\* setupGitHubToken().
C11_Witness ==
    /\ acquired["c1"] # 0
    /\ acquired["c1"] = acquired["c2"]
    /\ acquired["c1"] = tokenManager
    /\ \E c \in Callers : callers[c].op = "getToken"

\* C12. Under getToken() callers, createOctokit() callers and the hooks of
\* both clients, with resetInstance() called only while no refresh is in
\* flight: at most one doRefresh() run is in progress, and while one is its
\* promise is the one the manager holds.
C12_OneInFlight ==
    /\ Cardinality({r \in RunIds : Unsettled(r)}) <= 1
    /\ \A r \in RunIds : Unsettled(r) => refreshPromise = r

\* A run is in progress, started by the hook of a REST request answered
\* 401, and a getToken() caller waits on the same run.
C12_Witness ==
    \E r \in RunIds, c, d \in Callers :
        /\ Unsettled(r)
        /\ refreshPromise = r
        /\ callers[c].op = "request"
        /\ callers[c].api = "rest"
        /\ callers[c].pc = "awaiting"
        /\ callers[c].run = r
        /\ callers[d].op = "getToken"
        /\ callers[d].pc = "joined"
        /\ callers[d].run = r

\* C13. Every doRefresh() run that starts settles, having made at most
\* maxAttempts calls of the identity provider and at most maxAttempts calls
\* of the exchange endpoint, and the promise the manager holds is then
\* released, the run having succeeded or failed: a held promise always
\* leads to none held.
C13_BackToIdle ==
    /\ \A r \in 1 .. MaxRuns :
          (r \in RunIds /\ Unsettled(r))
             ~> (r \in RunIds /\ ~Unsettled(r) /\ refreshPromise # r)
    /\ (refreshPromise # 0) ~> (refreshPromise = 0)
    /\ [](\A r \in RunIds :
            /\ runs[r].frame.attempt <= WithDefaults(NoOptions).maxAttempts + 1
            /\ runs[r].frame.pc \in {"operation", "delay"} =>
                  runs[r].frame.attempt <= WithDefaults(NoOptions).maxAttempts)

\* The first run stored a token and its promise was released; the token went
\* stale with time, and a later getToken() started the second run.
C13_Witness ==
    /\ Len(runs) = 2
    /\ runs[1].outcome.ok
    /\ stored.run = 1
    /\ ~ValidAt(now)
    /\ now = stored.at + 50 * 60
    /\ refreshPromise = 2
    /\ Unsettled(2)

\* Caller c got outcome o of the promise it waited on: getToken() and
\* createOctokit() end with it, a hook puts the token into the header of
\* the request it sends again or ends with the error.
Received(c, o) ==
    IF ~o.ok
    THEN callers[c].pc = "idle" /\ callers[c].result = ErrorResult(o.error)
    ELSE CASE callers[c].op = "request" ->
                 callers[c].sends = 2 /\ callers[c].hdr = "token " \o o.token
           [] callers[c].op = "createOctokit" ->
                 callers[c].client = o.token
           [] OTHER -> callers[c].result = TokenResult(o.token)

\* C14. A call is bound to its value at the moment it is made. A getToken()
\* that finds the cache valid returns the token cached at that moment. Any
\* other call is bound, in the step it is made, to the run whose promise the
\* manager holds or, with none held, to the run it starts in that step: a
\* run that exists once the step is over; it stays bound to that run while
\* it waits and ends with that run's outcome. So all callers bound to one
\* run end with the same outcome, and none with the outcome of a run started
\* after its call.
C14_Ordering ==
    [][\A c \in Callers :
         /\ (callers[c].pc \in {"idle", "request"} /\ Awaiting(c)') =>
               /\ callers'[c].run =
                     IF refreshPromise # 0 THEN refreshPromise
                     ELSE Len(runs) + 1
               /\ callers'[c].run <= Len(runs')
               /\ Len(runs') <= Len(runs) + 1
         /\ (callers[c].pc = "idle" /\ ~Awaiting(c)'
               /\ callers'[c] # callers[c]
               /\ callers'[c].op \in {"getToken", "createOctokit"}) =>
               /\ ValidAt(now)
               /\ callers'[c].run = 0
               /\ callers'[c].result = TokenResult(token)
               /\ runs' = runs
         /\ (Awaiting(c) /\ Awaiting(c)') => callers'[c].run = callers[c].run
         /\ (Awaiting(c) /\ ~Awaiting(c)') =>
               /\ callers'[c].run = callers[c].run
               /\ runs[callers[c].run].pc = "settled"
               /\ Received(c, runs[callers[c].run].outcome)'
         /\ \A r \in RunIds :
               runs[r].pc = "settled" => runs'[r].outcome = runs[r].outcome
      ]_vars

\* A caller that joined the first run has ended with that run's outcome,
\* though a second run, started later, has settled with another outcome.
C14_Witness ==
    \E c \in Callers :
        /\ Len(runs) = 2
        /\ runs[2].pc = "settled"
        /\ runs[2].outcome # runs[1].outcome
        /\ runs[1].initiator # c
        /\ callers[c].pc = "idle"
        /\ callers[c].run = 1
        /\ callers[c].op = "getToken"
        /\ callers[c].result = ResultOf(runs[1].outcome)

\* C15. While a run has neither succeeded nor yet succeeds, no step changes
\* the cached token or its expiry, so a run that fails leaves them as they
\* were when it started. The two change only in a step in which a run
\* succeeds, which sets both, the token to the run's, or in a reset, which
\* empties both.
C15_FailureKeepsRecord ==
    [][/\ \A r \in RunIds :
            (Unsettled(r) /\ ~runs'[r].outcome.ok) =>
               (token' = token /\ tokenExpiry' = tokenExpiry)
       /\ (token' # token \/ tokenExpiry' # tokenExpiry) =>
            \/ \E r \in 1 .. Len(runs') :
                  /\ r > Len(runs) \/ Unsettled(r)
                  /\ runs'[r].pc = "settled"
                  /\ runs'[r].outcome.ok
                  /\ token' = runs'[r].outcome.token
                  /\ token' # Null
                  /\ tokenExpiry' # NullDate
            \/ /\ ResetStep
               /\ token' = Null
               /\ tokenExpiry' = NullDate]_vars

\* The first run stored a token; the second, started by a hook, failed, and
\* the token and its expiry are still the first run's.
C15_Witness ==
    /\ Len(runs) = 2
    /\ runs[1].outcome.ok
    /\ runs[2].pc = "settled"
    /\ ~runs[2].outcome.ok
    /\ callers[runs[2].initiator].op = "request"
    /\ token = runs[1].outcome.token
    /\ tokenExpiry # NullDate
    /\ stored.run = 1

\* The cached token and its expiry belong together: both empty, or the token
\* of the run that stored last with the expiry computed in that same step.
RecordWhole ==
    /\ (token = Null) <=> (tokenExpiry = NullDate)
    /\ token # Null =>
          /\ stored.run \in RunIds
          /\ runs[stored.run].outcome.ok
          /\ token = runs[stored.run].outcome.token
          /\ GetTime(tokenExpiry) =
                stored.at + (IF Truthy(override) THEN 365 * 24 * 60 * 60
                             ELSE 55 * 60)

\* C16. In every state between two steps the cached token and expiry are
\* both empty or both set and belong to one and the same store; a run that
\* succeeds replaces both in the one step in which it settles, the expiry
\* counted from that step's time, and neither changes without the other
\* being written in the same step.
C16_NeverPartial ==
    [][/\ RecordWhole'
       /\ \A r \in 1 .. Len(runs') :
            ((r > Len(runs) \/ Unsettled(r)) /\ runs'[r].outcome.ok) =>
               /\ token' = runs'[r].outcome.token
               /\ tokenExpiry' =
                     DateOf(now + (IF Truthy(override) THEN 365 * 24 * 60 * 60
                                   ELSE 55 * 60))
       /\ (token' # token \/ tokenExpiry' # tokenExpiry) =>
            \E r \in 1 .. Len(runs') :
               (r > Len(runs) \/ Unsettled(r)) /\ runs'[r].outcome.ok]_vars

\* The second run replaced the first run's token, later, and the expiry is
\* the second run's.
C16_Witness ==
    /\ Len(runs) = 2
    /\ runs[1].outcome.ok
    /\ runs[2].outcome.ok
    /\ ~Truthy(override)
    /\ token = runs[2].outcome.token
    /\ token # runs[1].outcome.token
    /\ stored.at > 0
    /\ tokenExpiry = DateOf(stored.at + 55 * 60)

\* The errors an attempt of the exchange, the k-th of run r, can fail with.
ExchangeFailuresAt(r, k) ==
    {ExchangeForAppToken(resp).error :
        resp \in {x \in ExchangeResponses(FreshToken(r), k) :
                     ~ExchangeForAppToken(x).ok}}

\* C17. In a run without override the identity-token step and the exchange
\* step each have their own three attempts. The exchange step is entered
\* only with an identity token, and with its attempt counter and delay
\* started anew, whatever the identity-token step used up. A failed attempt
\* that is not the step's third is followed by a delay and the next attempt
\* of the same step. A step's third failure ends the run in that very step:
\* no later step runs, and the run's promise, hence getToken(), is rejected
\* with a refresh error around the error of that last attempt.
C17_IndependentBudgets ==
    [][/\ \A r \in RunIds :
            LET f == runs[r].frame
                g == runs'[r].frame
            IN  /\ runs[r].pc = "oidc" => ~Truthy(runs[r].oidcToken)
                /\ runs'[r].pc = "exchange" => Truthy(runs'[r].oidcToken)
                /\ (runs[r].pc = "oidc" /\ runs'[r].pc = "exchange") =>
                      /\ f.pc = "operation"
                      /\ g.pc = "operation"
                      /\ g.attempt = 1
                      /\ g.delayMs = 5000
                      /\ g.lastError = NoError
                /\ (runs[r].pc = "oidc" /\ runs'[r].pc = "settled") =>
                      /\ f.pc = "operation"
                      /\ f.attempt = 3
                      /\ runs'[r].outcome = Rejected(NewError(
                            "Token refresh failed: Error: Could not fetch an OIDC token. Did you remember to add id-token: write to your workflow permissions?"))
                /\ (runs[r].pc = "exchange" /\ runs'[r].pc = "settled"
                      /\ ~runs'[r].outcome.ok) =>
                      /\ f.pc = "operation"
                      /\ f.attempt = 3
                      /\ \E e \in ExchangeFailuresAt(r, 3) :
                            runs'[r].outcome = Rejected(NewError(
                               "Token refresh failed: " \o e.kind \o ": "
                                  \o e.message))
                /\ (f.pc = "operation" /\ g.pc = "delay") =>
                      /\ f.attempt < 3
                      /\ g.attempt = f.attempt
                      /\ runs'[r].pc = runs[r].pc
                /\ (f.pc = "delay" /\ runs'[r] # runs[r]) =>
                      /\ g.pc = "operation"
                      /\ g.attempt = f.attempt + 1
                      /\ runs'[r].pc = runs[r].pc
                /\ (f.pc = "operation" /\ f.attempt < 3
                      /\ runs'[r] # runs[r]) =>
                      \/ g.pc = "delay"
                      \/ runs'[r].pc # runs[r].pc /\ runs'[r].pc = "exchange"
                      \/ runs'[r].pc = "settled" /\ runs'[r].outcome.ok
                /\ runs[r].pc = "settled" => runs'[r] = runs[r]
       /\ \A c \in Callers :
            (Awaiting(c) /\ ~Awaiting(c)'
               /\ ~runs[callers[c].run].outcome.ok) =>
               callers'[c].result =
                  ErrorResult(runs[callers[c].run].outcome.error)]_vars

\* The identity token was obtained at the third attempt, and the exchange is
\* at its own third attempt.
C17_Witness ==
    \E r \in RunIds :
        /\ runs[r].pc = "exchange"
        /\ runs[r].oidcToken = "oidc-jwt-3"
        /\ runs[r].frame.pc = "operation"
        /\ runs[r].frame.attempt = 3

\* The answers of the endpoint with a status that is no success.
NonSuccess(resp) == resp.fetch = "resolved" /\ ~resp.ok

\* C18, as stated. An attempt of the exchange that is answered with a
\* non-success status fails with an error whose message is the nested
\* error.message of the body if there is one and a generic message
\* otherwise, and the error carries the status of the response.
C18_AsStated ==
    \A i \in 1 .. Len(rOutcomes) :
        NonSuccess(rOutcomes[i].response) =>
            /\ ~rOutcomes[i].ok
            /\ rOutcomes[i].error.message =
                  (IF rOutcomes[i].response.body.errorMessage # Undefined
                   THEN rOutcomes[i].response.body.errorMessage
                   ELSE "Unknown error")
            /\ rOutcomes[i].error.status = rOutcomes[i].response.status

\* C19. The token a caller's clients were created with changes only when a
\* createOctokit() of that caller ends, never by a refresh. A request is
\* first sent with that token in its header, whatever the manager caches by
\* then, and touches nothing of the manager. A first attempt answered 401 or
\* 403 calls refreshToken(), once, whether or not the cached token is
\* valid: the caller waits on the held promise or on a run it starts. The
\* refreshed token goes into the header of the request sent again and
\* nowhere else.
C19_ClientTokenFixed ==
    [][\A c \in Callers :
         /\ callers'[c].client # callers[c].client =>
               /\ callers'[c].op = "createOctokit"
               /\ callers'[c].pc = "idle"
               /\ callers'[c].result = TokenResult(callers'[c].client)
         /\ (callers[c].pc = "idle" /\ callers'[c].pc = "request") =>
               /\ callers'[c].hdr = "token " \o callers[c].client
               /\ callers'[c].sends = 1
               /\ callers'[c].refreshes = 0
               /\ UNCHANGED <<token, tokenExpiry, refreshPromise, runs>>
         /\ (callers[c].pc = "request" /\ callers'[c] # callers[c]
               /\ StaleCredential(callers'[c].first)) =>
               /\ Awaiting(c)'
               /\ callers'[c].refreshes = 1
               /\ callers'[c].run =
                     IF refreshPromise # 0 THEN refreshPromise
                     ELSE Len(runs) + 1
               /\ callers'[c].hdr = "token " \o callers[c].client
         /\ (callers[c].pc # "retry" /\ callers'[c].pc = "retry") =>
               /\ callers'[c].hdr =
                     "token " \o runs[callers[c].run].outcome.token
               /\ callers'[c].client = callers[c].client
      ]_vars

\* The manager caches the second run's token, valid; a caller whose clients
\* were created with the first run's token has sent a request with that
\* token, was answered 401, and its hook has called refreshToken().
C19_Witness ==
    \E c \in Callers :
        /\ Len(runs) = 2
        /\ runs[1].outcome.ok
        /\ runs[2].outcome.ok
        /\ callers[c].client = runs[1].outcome.token
        /\ token = runs[2].outcome.token
        /\ token # callers[c].client
        /\ ValidAt(now)
        /\ callers[c].op = "request"
        /\ callers[c].first = 401
        /\ callers[c].refreshes = 1
        /\ callers[c].sends = 1
        /\ callers[c].hdr = "token " \o callers[c].client
        /\ Awaiting(c)

\* C20, as stated. With resetInstance() called at any time, a held promise
\* is released only by resetInstance() or when the refreshToken() call that
\* started the run it belongs to settles: the settlement of one run never
\* releases the promise of another run, and the promise of a run that has
\* not settled is released by resetInstance() alone.
C20_AsStated ==
    [][/\ (refreshPromise # 0 /\ refreshPromise' = 0) =>
            \/ ResetStep
            \/ \E c \in Callers :
                  /\ callers[c].pc = "awaiting"
                  /\ callers[c].run = refreshPromise
                  /\ callers'[c].pc # "awaiting"
       /\ (refreshPromise # 0 /\ Unsettled(refreshPromise)
             /\ refreshPromise' = 0) => ResetStep]_vars

====
